---- MODULE Spec2Model ----
(***************************************************************************)
(* Model of scrape_founder_profile (src/LinkedinFounderScraper.py): the    *)
(* record assembler with its section locator, item enumerator and field    *)
(* extractor, run against a document source whose every query may raise,   *)
(* return nothing, or return elements.                                     *)
(*                                                                         *)
(* Text is a sequence of one-character strings, so that str.strip,         *)
(* str.split and the substring test `in` are computed, not assumed.        *)
(*                                                                         *)
(* What may raise: driver.get and the page dump, every find_element and    *)
(* find_elements, execute_script, get_attribute('outerHTML') and the read  *)
(* of an entry's text.  The text of a heading and of the element a         *)
(* selector matched is read right after the query that returned it and is  *)
(* modelled as a string.                                                   *)
(***************************************************************************)
EXTENDS Integers, Sequences, FiniteSets, TLC

\* scrape_founder_profile: its control position, arguments and locals, and
\* what is observed of it (extracted, qlog, raised)
VARIABLES pc, profile_url, doc, data, all_sections, section, items, idx,
          extracted, qlog, raised

\* main: its control position, what its environment answers, and its locals
VARIABLES mpc, env, df, iter, results, driver, csv_file

\* analyze_founder_profiles: its control position, its table, its summary
VARIABLES apc, frame, summary

scrapeVars ==
    <<pc, profile_url, doc, data, all_sections, section, items, idx,
      extracted, qlog, raised>>

mainVars == <<mpc, env, df, iter, results, driver, csv_file>>

analysisVars == <<apc, frame, summary>>

vars == <<scrapeVars, mainVars, analysisVars>>

-----------------------------------------------------------------------------
(* Bounds of the document universe.                                        *)

MaxLines == 3
MaxSections == 2
MaxItems == 2
MaxLinks == 2
MaxRows == 2

-----------------------------------------------------------------------------
(* Python values.                                                          *)

None == [kind |-> "None"]
Str(s) == [kind |-> "str", s |-> s]

\* dict[k] = v
Put(d, k, v) == [x \in (DOMAIN d) \cup {k} |-> IF x = k THEN v ELSE d[x]]

EmptyDict == [x \in {} |-> <<>>]

\* any(d.values()): some value is a non-empty string
AnyValue(d) == \E k \in DOMAIN d : d[k] # <<>>

-----------------------------------------------------------------------------
(* Python str operations on sequences of characters.                       *)

Whitespace == {" ", "\n", "\t"}

RECURSIVE LStrip(_)
LStrip(s) ==
    IF s # <<>> /\ Head(s) \in Whitespace THEN LStrip(Tail(s)) ELSE s

RECURSIVE RStrip(_)
RStrip(s) ==
    IF s # <<>> /\ s[Len(s)] \in Whitespace
    THEN RStrip(SubSeq(s, 1, Len(s) - 1))
    ELSE s

\* s.strip()
Strip(s) == RStrip(LStrip(s))

\* s.startswith(p)
StartsWith(s, p) == Len(p) <= Len(s) /\ SubSeq(s, 1, Len(p)) = p

\* `p in s`
RECURSIVE Contains(_, _)
Contains(s, p) ==
    IF StartsWith(s, p) THEN TRUE
    ELSE IF s = <<>> THEN FALSE
    ELSE Contains(Tail(s), p)

\* s.split(sep): scans left to right, cutting at each occurrence of sep
RECURSIVE SplitFrom(_, _, _)
SplitFrom(s, sep, acc) ==
    IF s = <<>> THEN <<acc>>
    ELSE IF StartsWith(s, sep)
         THEN <<acc>> \o SplitFrom(SubSeq(s, Len(sep) + 1, Len(s)), sep, <<>>)
         ELSE SplitFrom(Tail(s), sep, Append(acc, Head(s)))

Split(s, sep) == SplitFrom(s, sep, <<>>)

RECURSIVE Join(_, _)
Join(parts, sep) ==
    IF parts = <<>> THEN <<>>
    ELSE IF Len(parts) = 1 THEN parts[1]
    ELSE LET half == Len(parts) \div 2
         IN  Join(SubSeq(parts, 1, half), sep) \o sep
             \o Join(SubSeq(parts, half + 1, Len(parts)), sep)

-----------------------------------------------------------------------------
(* String literals of the program.                                         *)

Separator == <<" ", "·", " ">>
Newline == <<"\n">>
ExperienceLabel == <<"E", "x", "p", "e", "r", "i", "e", "n", "c", "e">>
EducationLabel == <<"E", "d", "u", "c", "a", "t", "i", "o", "n">>
LoginMarker == <<"l", "o", "g", "i", "n">>
AuthwallMarker == <<"a", "u", "t", "h", "w", "a", "l", "l">>

name_selectors ==
    << "h1.text-heading-xlarge", "div.ph5.pb5 h1",
       "h1.sJlATPGtyhrnuKlKqeFAWOzgrMgdvKOBE", "h1.inline.t-24" >>

headline_selectors ==
    << "div.text-body-medium.break-words", "div.text-body-medium",
       "div.ph5.pb5 div.text-body-medium" >>

title_selectors ==
    << "div.mr1.t-bold", "div.align-items-center.mr1.t-bold", "span.t-bold",
       "span.t-16.t-bold", ".t-bold", "div.align-items-center" >>

company_selectors ==
    << "span.t-14.t-normal", "span.t-14.t-normal.t-black",
       "span.pv-entity__secondary-title", ".t-14.t-normal" >>

experience_date_selectors ==
    << "span.t-14.t-normal.t-black--light", "span.pv-entity__date-range",
       ".t-14.t-normal.t-black--light" >>

school_selectors ==
    << "div.mr1.hoverable-link-text.t-bold",
       "div.align-items-center.mr1.hoverable-link-text.t-bold", "span.t-bold",
       "h3.pv-entity__school-name", ".t-bold", "div.align-items-center" >>

degree_selectors ==
    << "span.t-14.t-normal", "span.pv-entity__secondary-title",
       "p.pv-entity__degree-name", ".t-14.t-normal" >>

education_date_selectors ==
    << "span.t-14.t-normal.t-black--light", "p.pv-entity__dates",
       ".t-14.t-normal.t-black--light" >>

Labels == {"Experience", "Education"}

LabelText(label) ==
    IF label = "Experience" THEN ExperienceLabel ELSE EducationLabel

\* the id of the anchor element: "experience", "education"
AnchorId(label) == IF label = "Experience" THEN "experience" ELSE "education"

\* the key of the record the section's entries are appended to
DataKey(label) == IF label = "Experience" THEN "experiences" ELSE "education"

-----------------------------------------------------------------------------
(* The document source.  A node answers find_elements(css) with a list or  *)
(* by raising; nodes the program descends into (card sections, ul lists,   *)
(* entries) are records, elements whose text alone is read (headings, the  *)
(* elements a field selector matches) are represented by their text.       *)

Raise(exc) == [kind |-> "raise", exc |-> exc]
List(elems) == [kind |-> "list", elems |-> elems]
Element(text) == [kind |-> "element", text |-> text]
Value(v) == [kind |-> "value", value |-> v]

\* node.find_elements(By.CSS_SELECTOR, selector); a selector the node does
\* not list matches nothing
FindElements(node, selector) ==
    IF selector \in DOMAIN node.css THEN node.css[selector] ELSE List(<<>>)

\* driver.find_element(By.CSS_SELECTOR, selector)
FindElement(d, selector) ==
    IF selector \in DOMAIN d.css THEN d.css[selector]
    ELSE Raise("NoSuchElementException")

\* driver.find_elements(By.CSS_SELECTOR, "section.artdeco-card"), the
\* call-th time it is issued
FindCards(d, call) ==
    IF call <= d.cards.raises THEN Raise("WebDriverException")
    ELSE List(d.cards.elems)

-----------------------------------------------------------------------------
(* Exception handlers.                                                     *)

\* `except NoSuchElementException: continue` around each name/headline
\* selector
SelectorHandler == "NoSuchElementException"

\* `except Exception` around navigation
NavigationHandler == "Exception"

\* variant: a phase catches only NoSuchElementException
PhaseHandlerNarrow == "NoSuchElementException"

\* `except Exception` around each of the four extraction phases
PhaseHandler == "Exception"

Catches(handler, exc) == handler = "Exception" \/ handler = exc

-----------------------------------------------------------------------------
(* Name and headline: ordered selectors, first element found wins.         *)

\* for selector in selectors: find_element; on success store the stripped
\* text and break; NoSuchElementException continues; any other exception
\* leaves the loop.  consulted counts the selectors queried.
RECURSIVE FirstElementText(_, _, _, _)
FirstElementText(d, selectors, i, acc) ==
    IF i > Len(selectors) THEN acc
    ELSE LET r == FindElement(d, selectors[i]) IN
         IF r.kind = "element"
         THEN [value |-> Str(Strip(r.text)), consulted |-> i, exc |-> "none"]
         ELSE IF Catches(SelectorHandler, r.exc)
              THEN FirstElementText(d, selectors, i + 1,
                                    [acc EXCEPT !.consulted = i])
              ELSE [acc EXCEPT !.consulted = i, !.exc = r.exc]

ScanDocument(d, selectors) ==
    FirstElementText(d, selectors, 1,
                     [value |-> None, consulted |-> 0, exc |-> "none"])

-----------------------------------------------------------------------------
(* Section locator.                                                        *)

\* variant: the heading may also spell the label with a lower-case e
HeaderMatchesAnyCase(text, label) ==
    Contains(text, LabelText(label))
    \/ Contains(text, <<"e">> \o Tail(LabelText(label)))

\* `"Experience" in header.text`
HeaderMatches(text, label) == Contains(text, LabelText(label))

\* a heading of the container's h2 list satisfies the test
HasHeader(headers, label) ==
    \E j \in 1..Len(headers) : HeaderMatches(headers[j], label)

\* the loop over all_sections: `found` is experience_section so far
RECURSIVE HeadingScan(_, _, _, _)
HeadingScan(sections, i, label, found) ==
    IF i > Len(sections) THEN found
    ELSE LET s == sections[i]
             h == FindElements(s, "h2")
         IN  IF h.kind = "raise"
             THEN HeadingScan(sections, i + 1, label, found)
             ELSE IF HasHeader(h.elems, label)
             THEN IF s.outerHTML = "raise"
                  THEN HeadingScan(sections, i + 1, label, s)
                  ELSE s
             ELSE IF found # None THEN found
             ELSE HeadingScan(sections, i + 1, label, found)

\* find_element(By.ID, ...) and the script that walks up to a SECTION
AnchorAscent(d, label) ==
    LET a == d.byId[AnchorId(label)] IN
    IF a.kind = "raise" THEN None
    ELSE IF a.script.kind = "raise" THEN None
    ELSE a.script.value

LocateSection(d, sections, label) ==
    LET byHeading == HeadingScan(sections, 1, label, None) IN
    IF byHeading # None
    THEN [section |-> byHeading, anchor |-> FALSE]
    ELSE [section |-> AnchorAscent(d, label), anchor |-> TRUE]

-----------------------------------------------------------------------------
(* Item enumerator.                                                        *)

Elems(outcome) == IF outcome.kind = "list" THEN outcome.elems ELSE <<>>

\* Approach 1
ListItems(sec) == Elems(FindElements(sec, "li.artdeco-list__item"))

\* Approach 2
FirstUlItems(sec) ==
    LET uls == Elems(FindElements(sec, "ul")) IN
    IF uls = <<>> THEN <<>> ELSE Elems(FindElements(uls[1], "li"))

\* Approach 3
FlexColumns(sec) == Elems(FindElements(sec, "div.display-flex.flex-column"))

\* variant: the approaches are tried in the reverse order
EnumerateItemsLastWins(sec) ==
    IF FlexColumns(sec) # <<>> THEN FlexColumns(sec)
    ELSE IF FirstUlItems(sec) # <<>> THEN FirstUlItems(sec)
    ELSE ListItems(sec)

EnumerateItems(sec) ==
    LET items1 == ListItems(sec)
        items2 == IF items1 = <<>> THEN FirstUlItems(sec) ELSE items1
        items3 == IF items2 = <<>> THEN FlexColumns(sec) ELSE items2
    IN  items3

-----------------------------------------------------------------------------
(* Field extractor.                                                        *)

\* variant: the loop over the selectors has no break
RECURSIVE LastMatchText(_, _, _, _)
LastMatchText(item, selectors, i, acc) ==
    IF i > Len(selectors) THEN [acc EXCEPT !.consulted = Len(selectors)]
    ELSE LET r == FindElements(item, selectors[i]) IN
         IF r.kind = "list" /\ r.elems # <<>>
         THEN LastMatchText(item, selectors, i + 1,
                  [matched |-> TRUE, text |-> Strip(r.elems[1]),
                   consulted |-> i])
         ELSE LastMatchText(item, selectors, i + 1, acc)

\* Tier A: for selector in selectors: find_elements; the first selector with
\* a non-empty result gives the stripped text of its first element and ends
\* the loop; a selector that raises is logged and the loop goes on.
RECURSIVE FirstMatchText(_, _, _, _)
FirstMatchText(item, selectors, i, acc) ==
    IF i > Len(selectors) THEN [acc EXCEPT !.consulted = Len(selectors)]
    ELSE LET r == FindElements(item, selectors[i]) IN
         IF r.kind = "list" /\ r.elems # <<>>
         THEN [matched |-> TRUE, text |-> Strip(r.elems[1]), consulted |-> i]
         ELSE FirstMatchText(item, selectors, i + 1, acc)

\* variant: every selector is queried, the last match is kept
ScanItemNoBreak(item, selectors) ==
    LastMatchText(item, selectors, 1,
                  [matched |-> FALSE, text |-> <<>>, consulted |-> 0])

ScanItem(item, selectors) ==
    FirstMatchText(item, selectors, 1,
                   [matched |-> FALSE, text |-> <<>>, consulted |-> 0])

\* variant: the text is read whatever the selectors gave
NeedsTextAlways(d, field) == TRUE

\* `"title" not in experience_data or not experience_data["title"]`
NeedsText(d, field) == field \notin DOMAIN d \/ d[field] = <<>>

\* item.text.split('\n'); no lines when reading the text raises
TextLines(item) ==
    IF item.text.kind = "raise" THEN <<>> ELSE Split(item.text.s, Newline)

\* variant: the line before the one the index names
LineAtOffByOne(item, index) ==
    LET lines == TextLines(item) IN
    IF Len(lines) >= index /\ index > 0 THEN <<Strip(lines[index])>>
    ELSE IF Len(lines) > index THEN <<Strip(lines[index + 1])>>
    ELSE <<>>

\* `if len(lines) > index: lines[index].strip()` (`if lines:` for index 0):
\* the one-element sequence of the line, or the empty sequence
LineAt(item, index) ==
    LET lines == TextLines(item) IN
    IF Len(lines) > index THEN <<Strip(lines[index + 1])>> ELSE <<>>

\* variant: without separator no employment_type is set
SplitCompanyNoType(d, company_text) ==
    IF Contains(company_text, Separator)
    THEN LET company_parts == Split(company_text, Separator) IN
         Put(Put(d, "company", company_parts[1]), "employment_type",
             IF Len(company_parts) > 1 THEN company_parts[2] ELSE <<>>)
    ELSE Put(d, "company", company_text)

\* the company text is cut at " · ": part 0 is the company, part 1 the
\* employment type; without the separator the type is the empty string
SplitCompany(d, company_text) ==
    IF Contains(company_text, Separator)
    THEN LET company_parts == Split(company_text, Separator) IN
         Put(Put(d, "company", company_parts[1]), "employment_type",
             IF Len(company_parts) > 1 THEN company_parts[2] ELSE <<>>)
    ELSE Put(Put(d, "company", company_text), "employment_type", <<>>)

\* a plain field: Tier A, then Tier B when the field is missing or empty
PlainField(d, item, field, selectors, index) ==
    LET a == ScanItem(item, selectors)
        d1 == IF a.matched THEN Put(d, field, a.text) ELSE d
        line == LineAt(item, index)
    IN  IF NeedsText(d1, field) /\ line # <<>>
        THEN Put(d1, field, line[1])
        ELSE d1

\* the company field of an experience entry
CompanyField(d, item) ==
    LET a == ScanItem(item, company_selectors)
        d1 == IF a.matched THEN SplitCompany(d, a.text) ELSE d
        line == LineAt(item, 1)
    IN  IF NeedsText(d1, "company") /\ line # <<>>
        THEN SplitCompany(d1, line[1])
        ELSE d1

\* experience_data after the three fields of one experience item
ExperienceData(item) ==
    LET d1 == PlainField(EmptyDict, item, "title", title_selectors, 0)
        d2 == CompanyField(d1, item)
    IN  PlainField(d2, item, "date_range", experience_date_selectors, 2)

\* education_data after the three fields of one education item
EducationData(item) ==
    LET d1 == PlainField(EmptyDict, item, "school", school_selectors, 0)
        d2 == PlainField(d1, item, "degree", degree_selectors, 1)
    IN  PlainField(d2, item, "date_range", education_date_selectors, 2)

EntryData(label, item) ==
    IF label = "Experience" THEN ExperienceData(item) ELSE EducationData(item)

\* variant: every entry is appended
KeepAll(entries, d) == Append(entries, d)

\* `if any(experience_data.values()): data["experiences"].append(...)`
AppendIfAny(entries, d) == IF AnyValue(d) THEN Append(entries, d) ELSE entries

-----------------------------------------------------------------------------
(* The bounded universe of documents the source may serve.                 *)

SeqsUpTo(S, n) == UNION {[1..k -> S] : k \in 0..n}

Text(t) == [kind |-> "text", s |-> t]

UrlAnn ==
    <<"h", "t", "t", "p", "s", ":", "/", "/", "x", "/", "i", "n", "/",
      "a", "n", "n">>
UrlBob ==
    <<"h", "t", "t", "p", "s", ":", "/", "/", "x", "/", "i", "n", "/",
      "b", "o", "b">>
ProfilePage == <<"/", "i", "n", "/", "a", "n", "n">>
LoginPage == <<"/", "l", "o", "g", "i", "n", "?", "n", "e", "x", "t">>
AuthwallPage == <<"/", "a", "u", "t", "h", "w", "a", "l", "l">>

About == <<"A", "b", "o", "u", "t">>
LowerExperience == <<"e", "x", "p", "e", "r", "i", "e", "n", "c", "e">>
WorkExperience ==
    <<"W", "o", "r", "k", " ", "E", "x", "p", "e", "r", "i", "e", "n", "c",
      "e">>

VPEngineering ==
    <<"V", "P", " ", "E", "n", "g", "i", "n", "e", "e", "r", "i", "n", "g">>
AcmeCorp == <<"A", "c", "m", "e", " ", "C", "o", "r", "p">>
FullTime == <<"F", "u", "l", "l", "-", "t", "i", "m", "e">>
JanPresent ==
    <<"J", "a", "n", " ", "2", "0", "2", "0", " ", "-", " ", "P", "r", "e",
      "s", "e", "n", "t">>
\* "VP Engineering\nAcme Corp · Full-time\nJan 2020 - Present"
ScenarioAText ==
    VPEngineering \o Newline \o AcmeCorp \o Separator \o FullTime
    \o Newline \o JanPresent

\* single lines of an entry's text
LineSet ==
    { <<>>, <<"a">>, <<" ", "b", " ">>,
      <<"a", " ", "·", " ", "b">>,
      <<"a", " ", "·", " ", "b", " ", "·", " ", "c">>,
      <<"a", " ", "·", "b">>,
      <<"a", " ", "·", " ", " ", "b">> }

\* entry texts of up to MaxLines lines
ItemTexts ==
    {Join(ls, Newline) : ls \in (SeqsUpTo(LineSet, MaxLines) \ {<<>>})}
    \cup {ScenarioAText}

\* texts of the element a field selector matches
ElemTexts ==
    { <<>>, <<" ">>, <<"a">>, <<" ", "b", " ">>,
      <<"a", " ", "·", " ", "b">>,
      <<"a", " ", "·", " ", "b", " ", "·", " ", "c">>,
      <<"a", " ", " ", "·", " ", "b">>,
      <<"a", "\n", "b">> }

\* what a field selector may answer when it is the one that matches
RichOutcomes ==
    {List(<<t>>) : t \in ElemTexts} \cup {List(<<<<"a">>, <<"z">>>>)}

\* an entry: the answers of its selectors, its flattened text, and whether
\* reading its outerHTML raises
Item(css, text, html) == [css |-> css, text |-> text, outerHTML |-> html]

\* the selectors before the focus all answer `before`, the focus answers
\* `hit`, the selectors after it all answer `after`
Pattern(selectors, k, before, hit, after) ==
    [q \in {selectors[i] : i \in 1..Len(selectors)} |->
        LET i == CHOOSE j \in 1..Len(selectors) : selectors[j] = q IN
        IF i < k THEN before ELSE IF i = k THEN hit ELSE after]

Patterns(selectors) ==
    { Pattern(selectors, k, b, h, a) :
        k \in 1..Len(selectors),
        b \in {List(<<>>), Raise("WebDriverException")},
        h \in RichOutcomes,
        a \in {List(<<>>), Raise("WebDriverException"), List(<<<<"z">>>>)} }

SmallItemTexts ==
    { Raise("WebDriverException"), Text(<<>>), Text(<<"x">>),
      Text(<<"x", "\n", "y", " ", "·", " ", "w", "\n", "z">>) }

FieldSelectors ==
    { title_selectors, company_selectors, experience_date_selectors,
      school_selectors, degree_selectors, education_date_selectors }

AllRaise ==
    [q \in UNION {{sels[i] : i \in 1..Len(sels)} : sels \in FieldSelectors}
        |-> Raise("WebDriverException")]

ItemA == Item(EmptyDict, Text(<<"a">>), "ok")
ItemB == Item(EmptyDict, Text(<<"b", "\n", "c">>), "ok")
BlankItem == Item(EmptyDict, Text(<<>>), "ok")
StaleItem == Item(EmptyDict, Text(<<"s">>), "raise")
SimpleItems == {ItemA, ItemB, BlankItem, StaleItem}

ItemLists ==
    {List(l) : l \in SeqsUpTo(SimpleItems, MaxItems)}
    \cup {Raise("WebDriverException")}

Ul(li) == [css |-> ("li" :> li)]

\* the li elements below a ul, in document order: each child li, then the
\* li elements of the list nested in it
RECURSIVE Descendants(_)
Descendants(children) ==
    IF children = <<>> THEN <<>>
    ELSE <<Head(children).item>> \o Head(children).nested
         \o Descendants(Tail(children))

\* a ul given by its tree: the CSS selector "li" matches every li below it
TreeUl(children) ==
    [css |-> ("li" :> List(Descendants(children))), children |-> children]

Li(item, nested) == [item |-> item, nested |-> nested]

\* the uls nested in the children, in document order
RECURSIVE NestedUls(_)
NestedUls(children) ==
    IF children = <<>> THEN <<>>
    ELSE (IF Head(children).nested = <<>> THEN <<>>
          ELSE <<Ul(List(Head(children).nested))>>)
         \o NestedUls(Tail(children))

UlTrees ==
    { <<>>, <<Li(ItemA, <<>>)>>, <<Li(ItemA, <<ItemB>>)>>,
      <<Li(ItemA, <<ItemB>>), Li(ItemB, <<>>)>>,
      <<Li(ItemB, <<>>), Li(ItemA, <<BlankItem, ItemA>>)>> }

UlLists ==
    { List(<<>>), Raise("WebDriverException") }
    \cup {List(<<Ul(li)>>) : li \in ItemLists}
    \cup {List(<<Ul(li), Ul(List(<<ItemB>>))>>) : li \in ItemLists}

\* a card section
Section(id, h2, html, li, ul, flex) ==
    [ id |-> id, outerHTML |-> html,
      css |-> ("h2" :> h2) @@ ("li.artdeco-list__item" :> li)
              @@ ("ul" :> ul) @@ ("div.display-flex.flex-column" :> flex) ]

Marks == <<"p", "q", "r", "s", "t">>

\* a section whose only entry names the section
MarkedSection(id, h2, html) ==
    Section(id, h2, html, List(<<Item(EmptyDict, Text(<<Marks[id + 1]>>), "ok")>>),
            List(<<>>), List(<<>>))

\* the SECTION the anchor's ascent reaches: no card, no heading
AnchorSection == MarkedSection(0, List(<<>>), "ok")

HeaderOutcomes ==
    { Raise("WebDriverException"), List(<<>>), List(<<About>>),
      List(<<ExperienceLabel>>), List(<<EducationLabel>>),
      List(<<LowerExperience>>), List(<<WorkExperience>>),
      List(<<About, ExperienceLabel>>), List(<<About, EducationLabel>>),
      List(<<ExperienceLabel, EducationLabel>>) }

AnchorOutcomes ==
    { Raise("NoSuchElementException"), Raise("WebDriverException"),
      [kind |-> "element", script |-> Raise("JavascriptException")],
      [kind |-> "element", script |-> Value(None)],
      [kind |-> "element", script |-> Value(AnchorSection)] }

NoAnchors ==
    [id \in {"experience", "education"} |-> Raise("NoSuchElementException")]

OkNav == [get |-> "ok", save |-> "ok", current_url |-> ProfilePage]

Doc(nav, css, raises, cards, byId) ==
    [ nav |-> nav, css |-> css, cards |-> [raises |-> raises, elems |-> cards],
      byId |-> byId ]

LabelHeader(label) == List(<<LabelText(label)>>)

\* a profile with a name, a headline, one experience and one education
FullCss ==
    ("h1.text-heading-xlarge" :> Element(<<" ", "A", "n", "n", " ">>))
    @@ ("div.text-body-medium" :> Element(<<"C", "E", "O">>))

FullCards ==
    << Section(1, LabelHeader("Experience"), "ok",
               List(<<Item(EmptyDict, Text(ScenarioAText), "ok")>>),
               List(<<>>), List(<<>>)),
       Section(2, LabelHeader("Education"), "ok", List(<<ItemB>>),
               List(<<>>), List(<<>>)) >>

\* navigation: get or the page dump may raise, the browser may land on a
\* login or authwall page
Navs ==
    { OkNav,
      [OkNav EXCEPT !.get = "raise"],
      [OkNav EXCEPT !.save = "raise"],
      [OkNav EXCEPT !.current_url = LoginPage],
      [OkNav EXCEPT !.current_url = AuthwallPage] }

ElementOutcomes ==
    { Raise("NoSuchElementException"), Raise("WebDriverException"),
      Element(<<>>), Element(<<" ", "A", "n", "n", " ">>),
      Element(<<"C", "E", "O">>) }

SelectorSet(selectors) == {selectors[i] : i \in 1..Len(selectors)}

FewAnswers(selectors) ==
    { [q \in SelectorSet(selectors) |-> Raise("NoSuchElementException")],
      [q \in SelectorSet(selectors) |-> Raise("WebDriverException")],
      [q \in SelectorSet(selectors) |-> Element(<<" ", "h", " ">>)] }

\* a card's heading list, and whether reading its outerHTML raises
CardChoices ==
    (HeaderOutcomes \X {"ok"})
    \cup ({ List(<<ExperienceLabel>>), List(<<EducationLabel>>),
            List(<<ExperienceLabel, EducationLabel>>) } \X {"raise"})

AnchorChoices ==
    { NoAnchors,
      [id \in {"experience", "education"} |->
          [kind |-> "element", script |-> Value(AnchorSection)]] }

FewCards ==
    { <<>>,
      <<MarkedSection(1, LabelHeader("Experience"), "ok")>>,
      <<MarkedSection(1, LabelHeader("Education"), "ok")>> }

FewUls ==
    { List(<<>>), List(<<Ul(List(<<ItemB>>))>>),
      List(<<Ul(List(<<>>)), Ul(List(<<ItemA>>))>>) }

FewFlex ==
    { List(<<>>), List(<<ItemA>>), List(<<ItemB, ItemA>>),
      Raise("WebDriverException") }

\* a document with one card headed by the label
OneCard(label, li, ul, flex) ==
    Doc(OkNav, EmptyDict, 0,
        <<Section(1, LabelHeader(label), "ok", li, ul, flex)>>, NoAnchors)

\* the subject URLs handed to scrape_founder_profile
ProfileUrls == {UrlAnn, UrlBob}

\* the documents: navigation outcomes
NavDocs(url, d) ==
    \E u \in ProfileUrls, nav \in Navs :
       url = u /\ d = Doc(nav, FullCss, 0, FullCards, NoAnchors)

\* the documents: answers of the name and headline selectors
HeadDocs(url, d) ==
    /\ url = UrlAnn
    /\ \/ \E n \in [SelectorSet(name_selectors) -> ElementOutcomes],
             h \in FewAnswers(headline_selectors) :
             d = Doc(OkNav, n @@ h, 0, FullCards, NoAnchors)
       \/ \E n \in FewAnswers(name_selectors),
             h \in [SelectorSet(headline_selectors) -> ElementOutcomes] :
             d = Doc(OkNav, n @@ h, 0, <<>>, NoAnchors)

\* the documents: card sections with their headings
SectionDocs(url, d) ==
    /\ url = UrlAnn
    /\ \E cs \in SeqsUpTo(CardChoices, MaxSections), byId \in AnchorChoices :
          d = Doc(OkNav, EmptyDict, 0,
                  [i \in 1..Len(cs) |-> MarkedSection(i, cs[i][1], cs[i][2])],
                  byId)

\* the documents: anchors, and the card query raising
AnchorDocs(url, d) ==
    /\ url = UrlAnn
    /\ \E raises \in 0..2, cards \in FewCards,
          byId \in [{"experience", "education"} -> AnchorOutcomes] :
          d = Doc(OkNav, EmptyDict, raises, cards, byId)

\* the documents: answers of the three enumeration strategies
EnumDocs(url, d) ==
    /\ url = UrlAnn
    /\ \/ \E label \in Labels, li \in ItemLists, ul \in FewUls,
             flex \in FewFlex :
             d = OneCard(label, li, ul, flex)
       \/ \E label \in Labels,
             li \in {List(<<>>), Raise("WebDriverException")},
             ul \in UlLists, flex \in FewFlex :
             d = OneCard(label, li, ul, flex)

\* the documents: one entry under one label
EntryDocs(url, d) ==
    /\ url = UrlAnn
    /\ \/ \E label \in Labels, sels \in FieldSelectors, t \in SmallItemTexts :
             \E css \in Patterns(sels) :
                d = OneCard(label, List(<<Item(css, t, "ok")>>), List(<<>>),
                            List(<<>>))
       \/ \E label \in Labels, css \in {EmptyDict, AllRaise}, t \in ItemTexts :
             d = OneCard(label, List(<<Item(css, Text(t), "ok")>>), List(<<>>),
                         List(<<>>))

\* the documents: a first ul with nested lists, and a later ul
NestDocs(url, d) ==
    /\ url = UrlAnn
    /\ \E label \in Labels, children \in UlTrees,
          later \in {<<>>, <<Ul(List(<<ItemB>>))>>},
          li \in {List(<<>>), Raise("WebDriverException")} :
          d = OneCard(label, li,
                      List(<<TreeUl(children)>> \o NestedUls(children)
                           \o later),
                      List(<<ItemA>>))

-----------------------------------------------------------------------------
(* scrape_founder_profile(driver, profile_url), one step per phase.        *)

\* a local variable not yet assigned
Unset == [kind |-> "unset"]

Unbound == [bound |-> FALSE, elems |-> <<>>]
Bound(elems) == [bound |-> TRUE, elems |-> elems]

Query(phase, q) == [phase |-> phase, q |-> q]

Queries(phase, selectors, n) == [i \in 1..n |-> Query(phase, selectors[i])]

\* data = {"profile_url": profile_url, "name": None, ...}
InitialData(url) ==
    [ profile_url |-> url, name |-> None, headline |-> None,
      experiences |-> <<>>, education |-> <<>> ]

-----------------------------------------------------------------------------
(* json.dumps and json.loads, on text.                                     *)

\* variant: a character is written as it is
NoEscape(c) == <<c>>

\* json.dumps, one character of a text: the quote, the backslash and the
\* control characters are escaped, and with ensure_ascii the middle dot
JsonEscape(c) ==
    IF c = "\"" THEN <<"\\", "\"">>
    ELSE IF c = "\\" THEN <<"\\", "\\">>
    ELSE IF c = "\n" THEN <<"\\", "n">>
    ELSE IF c = "\t" THEN <<"\\", "t">>
    ELSE IF c = "·" THEN <<"\\", "u", "0", "0", "b", "7">>
    ELSE <<c>>

\* json.dumps(item["experiences"]): a list of dicts of strings, with the
\* default separators and ensure_ascii; the keys of an entry are
\* written in the order in which the code stores them
JsonDumps(entries) ==
    LET KeyText ==
            << <<"title", <<"t", "i", "t", "l", "e">>>>,
               <<"company", <<"c", "o", "m", "p", "a", "n", "y">>>>,
               <<"employment_type",
                 <<"e", "m", "p", "l", "o", "y", "m", "e", "n", "t", "_", "t", "y",
                   "p", "e">>>>,
               <<"school", <<"s", "c", "h", "o", "o", "l">>>>,
               <<"degree", <<"d", "e", "g", "r", "e", "e">>>>,
               <<"date_range",
                 <<"d", "a", "t", "e", "_", "r", "a", "n", "g", "e">>>> >>
        EncodeString(t) ==
            <<"\"">> \o Join([i \in 1..Len(t) |-> JsonEscape(t[i])], <<>>)
            \o <<"\"">>
        Keys(d) == SelectSeq(KeyText, LAMBDA k : k[1] \in DOMAIN d)
        EncodeDict(d) ==
            <<"{">>
            \o Join([i \in 1..Len(Keys(d)) |->
                        EncodeString(Keys(d)[i][2]) \o <<":", " ">>
                        \o EncodeString(d[Keys(d)[i][1]])],
                    <<",", " ">>)
            \o <<"}">>
    IN  <<"[">>
        \o Join([i \in 1..Len(entries) |-> EncodeDict(entries[i])],
                <<",", " ">>)
        \o <<"]">>

\* json.loads(s): the decoded value, tagged with its type, or
\* JSONDecodeError; texts, lists, objects, null and one-digit numbers are
\* decoded, a repeated key keeps its last value
JsonLoads(s) ==
    LET JList(v) == [t |-> "list", v |-> v]
        JDict(v) == [t |-> "dict", v |-> v]
        JStr(v) == [t |-> "str", v |-> v]
        JNum(v) == [t |-> "num", v |-> v]
        JNull == [t |-> "null"]
        Digits == {"0", "1", "2", "3", "4", "5", "6", "7", "8", "9"}
        Failed == [ok |-> FALSE]
        Parsed(v, i) == [ok |-> TRUE, v |-> v, i |-> i]
        \* the index of the first character at or after i that is not
        \* whitespace
        RECURSIVE SkipWs(_)
        SkipWs(i) ==
            IF i <= Len(s) /\ s[i] \in {" ", "\n", "\t", "\r"}
            THEN SkipWs(i + 1)
            ELSE i
        \* the body of a string, i after the opening quote
        RECURSIVE ParseString(_, _)
        ParseString(i, acc) ==
            IF i > Len(s) THEN Failed
            ELSE IF s[i] = "\"" THEN Parsed(acc, i + 1)
            ELSE IF s[i] \in {"\n", "\t", "\r"} THEN Failed
            ELSE IF s[i] # "\\" THEN ParseString(i + 1, Append(acc, s[i]))
            ELSE IF i + 1 > Len(s) THEN Failed
            ELSE IF s[i + 1] \in {"\"", "\\", "/"}
                 THEN ParseString(i + 2, Append(acc, s[i + 1]))
            ELSE IF s[i + 1] = "n" THEN ParseString(i + 2, Append(acc, "\n"))
            ELSE IF s[i + 1] = "t" THEN ParseString(i + 2, Append(acc, "\t"))
            ELSE IF s[i + 1] = "u" /\ i + 5 <= Len(s)
                    /\ SubSeq(s, i + 2, i + 5) = <<"0", "0", "b", "7">>
                 THEN ParseString(i + 6, Append(acc, "·"))
            ELSE Failed
        RECURSIVE ParseValue(_)
        RECURSIVE ParseElements(_, _)
        RECURSIVE ParseMembers(_, _)
        \* a value starting at i (whitespace skipped)
        ParseValue(i) ==
            IF i > Len(s) THEN Failed
            ELSE IF s[i] = "\"" THEN
                 LET r == ParseString(i + 1, <<>>) IN
                 IF r.ok THEN Parsed(JStr(r.v), r.i) ELSE Failed
            ELSE IF s[i] = "[" THEN
                 IF SkipWs(i + 1) <= Len(s) /\ s[SkipWs(i + 1)] = "]"
                 THEN Parsed(JList(<<>>), SkipWs(i + 1) + 1)
                 ELSE ParseElements(SkipWs(i + 1), <<>>)
            ELSE IF s[i] = "{" THEN
                 IF SkipWs(i + 1) <= Len(s) /\ s[SkipWs(i + 1)] = "}"
                 THEN Parsed(JDict(EmptyDict), SkipWs(i + 1) + 1)
                 ELSE ParseMembers(SkipWs(i + 1), EmptyDict)
            ELSE IF i + 3 <= Len(s)
                    /\ SubSeq(s, i, i + 3) = <<"n", "u", "l", "l">>
                 THEN Parsed(JNull, i + 4)
            ELSE IF s[i] \in Digits /\ (i = Len(s) \/ s[i + 1] \notin Digits)
                 THEN Parsed(JNum(s[i]), i + 1)
            ELSE Failed
        \* the elements of an array, i at an element
        ParseElements(i, acc) ==
            LET r == ParseValue(i) IN
            IF ~r.ok THEN Failed
            ELSE LET j == SkipWs(r.i) IN
                 IF j > Len(s) THEN Failed
                 ELSE IF s[j] = "]" THEN Parsed(JList(Append(acc, r.v)), j + 1)
                 ELSE IF s[j] = ","
                      THEN ParseElements(SkipWs(j + 1), Append(acc, r.v))
                 ELSE Failed
        \* the members of an object, i at a key
        ParseMembers(i, acc) ==
            IF i > Len(s) \/ s[i] # "\"" THEN Failed
            ELSE LET k == ParseString(i + 1, <<>>) IN
                 IF ~k.ok THEN Failed
                 ELSE LET c == SkipWs(k.i) IN
                      IF c > Len(s) \/ s[c] # ":" THEN Failed
                      ELSE LET r == ParseValue(SkipWs(c + 1)) IN
                           IF ~r.ok THEN Failed
                           ELSE LET j == SkipWs(r.i)
                                    d == (k.v :> r.v) @@ acc
                                IN  IF j > Len(s) THEN Failed
                                    ELSE IF s[j] = "}"
                                         THEN Parsed(JDict(d), j + 1)
                                    ELSE IF s[j] = ","
                                         THEN ParseMembers(SkipWs(j + 1), d)
                                    ELSE Failed
        top == ParseValue(SkipWs(1))
    IN  IF top.ok /\ SkipWs(top.i) > Len(s) THEN Value(top.v)
        ELSE Raise("JSONDecodeError")

-----------------------------------------------------------------------------
(* The CSV file between main and analyze_founder_profiles.                 *)

\* a missing value of a table read by pandas
NaN == [kind |-> "NaN"]

\* DataFrame.to_csv, one field: None is written as nothing; a text holding
\* a comma, a quote or a line break is quoted, its quotes doubled
ToCsvField(v) ==
    IF v = None THEN <<>>
    ELSE IF \E i \in 1..Len(v.s) : v.s[i] \in {",", "\"", "\n", "\r"}
         THEN <<"\"">>
              \o Join([i \in 1..Len(v.s) |->
                          IF v.s[i] = "\"" THEN <<"\"", "\"">> ELSE <<v.s[i]>>],
                      <<>>)
              \o <<"\"">>
    ELSE v.s

\* pd.read_csv(csv_file_path) on the rows of a file: the enclosing quotes
\* of a field are removed and of every two adjacent quotes inside only the
\* first is kept; a missing field is NaN; a column whose fields are all
\* numbers is numeric, any other column holds text
ReadCsv(file) ==
    LET \* the number of consecutive quotes of t that end at position i
        RECURSIVE QuoteRun(_, _)
        QuoteRun(t, i) ==
            IF i >= 1 /\ t[i] = "\"" THEN 1 + QuoteRun(t, i - 1) ELSE 0
        FieldText(t) ==
            IF Len(t) >= 2 /\ t[1] = "\"" /\ t[Len(t)] = "\""
            THEN LET inner == SubSeq(t, 2, Len(t) - 1)
                 IN  Join([i \in 1..Len(inner) |->
                              IF QuoteRun(inner, i) % 2 = 0 /\ inner[i] = "\""
                              THEN <<>> ELSE <<inner[i]>>],
                          <<>>)
            ELSE t
        \* texts read as missing
        NaTexts ==
            { <<>>, <<"N", "A">>, <<"N", "a", "N">>, <<"n", "a", "n">>,
              <<"n", "u", "l", "l">>, <<"N", "U", "L", "L">>,
              <<"N", "/", "A">> }
        Cell(i, c) == FieldText(file[i][c])
        Missing(i, c) == Cell(i, c) \in NaTexts
        IsNumber(t) ==
            /\ t # <<>>
            /\ \A k \in 1..Len(t) :
                  t[k] \in {"0", "1", "2", "3", "4", "5", "6", "7", "8", "9"}
        Numeric(c) ==
            /\ \E i \in 1..Len(file) : ~Missing(i, c)
            /\ \A i \in 1..Len(file) : Missing(i, c) \/ IsNumber(Cell(i, c))
    IN  [i \in 1..Len(file) |->
            [c \in DOMAIN file[i] |->
                IF Missing(i, c) THEN NaN
                ELSE IF Numeric(c) THEN [kind |-> "num", n |-> Cell(i, c)]
                ELSE Str(Cell(i, c))]]

\* a function of the program has not been called: its variables are unset
Idle(function) ==
    CASE function = "scrape_founder_profile" ->
            /\ pc = "idle"
            /\ profile_url = <<>>
            /\ doc = Doc(OkNav, EmptyDict, 0, <<>>, NoAnchors)
            /\ data = InitialData(<<>>)
            /\ all_sections = Unbound
            /\ section = [l \in Labels |-> Unset]
            /\ items = [l \in Labels |-> <<>>]
            /\ idx = 0
            /\ extracted = [l \in Labels |-> <<>>]
            /\ qlog = <<>>
            /\ raised = "none"
      [] function = "main" ->
            /\ mpc = "idle"
            /\ env = Unset
            /\ df = Unset
            /\ iter = 0
            /\ results = <<>>
            /\ driver = "none"
            /\ csv_file = Unset
      [] function = "analyze_founder_profiles" ->
            /\ apc = "idle"
            /\ frame = Unset
            /\ summary = Unset

Init ==
    /\ \/ NavDocs(profile_url, doc)
       \/ HeadDocs(profile_url, doc)
       \/ SectionDocs(profile_url, doc)
       \/ AnchorDocs(profile_url, doc)
       \/ EnumDocs(profile_url, doc)
       \/ EntryDocs(profile_url, doc)
       \/ NestDocs(profile_url, doc)
    /\ data = InitialData(profile_url)
    /\ pc = "navigate"
    /\ all_sections = Unbound
    /\ section = [l \in Labels |-> Unset]
    /\ items = [l \in Labels |-> <<>>]
    /\ idx = 0
    /\ extracted = [l \in Labels |-> <<>>]
    /\ qlog = <<>>
    /\ raised = "none"
    /\ Idle("main")
    /\ Idle("analyze_founder_profiles")

\* an exception leaves a try block guarded by `handler`: caught, the
\* function goes on at `next`; not caught, it leaves the function
Handle(handler, exc, next) ==
    IF Catches(handler, exc)
    THEN pc' = next /\ raised' = raised
    ELSE pc' = "raised" /\ raised' = exc

\* variant: only the login page counts as a redirect
RedirectedLoginOnly(url) == Contains(url, LoginMarker)

\* `"login" in driver.current_url or "authwall" in driver.current_url`
Redirected(url) == Contains(url, LoginMarker) \/ Contains(url, AuthwallMarker)

\* driver.get, the page dump, the login/authwall test
Navigate ==
    /\ pc = "navigate"
    /\ qlog' = Append(qlog, Query("navigate", "get"))
    /\ IF doc.nav.get = "raise" \/ doc.nav.save = "raise"
       THEN Handle(NavigationHandler, "WebDriverException", "return")
       ELSE /\ raised' = raised
            /\ IF Redirected(doc.nav.current_url)
               THEN pc' = "return"
               ELSE pc' = "name"
    /\ UNCHANGED <<mainVars, analysisVars>>
    /\ UNCHANGED <<profile_url, doc, data, all_sections, section, items, idx,
                   extracted>>

\* a document-level field: name, headline
ExtractFromDocument(phase, field, selectors, next) ==
    /\ pc = phase
    /\ LET r == ScanDocument(doc, selectors) IN
          /\ data' = [data EXCEPT ![field] = r.value]
          /\ qlog' = qlog \o Queries(phase, selectors, r.consulted)
          /\ IF r.exc = "none"
             THEN pc' = next /\ raised' = raised
             ELSE Handle(PhaseHandler, r.exc, next)
    /\ UNCHANGED <<mainVars, analysisVars>>
    /\ UNCHANGED <<profile_url, doc, all_sections, section, items, idx,
                   extracted>>

ExtractName == ExtractFromDocument("name", "name", name_selectors, "headline")

ExtractHeadline ==
    ExtractFromDocument("headline", "headline", headline_selectors,
                        "Experience_locate")

Phase(label, step) ==
    IF label = "Experience" THEN "Experience_" \o step
    ELSE "Education_" \o step

\* variant: the function finishes after the experience entries
AfterSkipsEducation(label) == "finish"

\* the phase after the entries of `label`
After(label) == IF label = "Experience" THEN "Education_locate" ELSE "finish"

\* whether the phase issues the card query: always for Experience, for
\* Education only if all_sections is not yet bound
IssuesCardQuery(label) == label = "Experience" \/ ~all_sections.bound

\* the number of card queries issued before this one
CardCall(label) == IF label = "Experience" THEN 1 ELSE 2

\* all_sections, the heading scan, the anchor fallback
Locate(label) ==
    /\ pc = Phase(label, "locate")
    /\ LET cards == IF IssuesCardQuery(label)
                    THEN FindCards(doc, CardCall(label))
                    ELSE List(all_sections.elems)
           asked == IF IssuesCardQuery(label)
                    THEN <<Query(label, "section.artdeco-card")>>
                    ELSE <<>>
       IN  IF cards.kind = "raise"
           THEN /\ Handle(PhaseHandler, cards.exc, After(label))
                /\ qlog' = qlog \o asked
                /\ UNCHANGED <<all_sections, section>>
           ELSE LET found == LocateSection(doc, cards.elems, label) IN
                /\ all_sections' = Bound(cards.elems)
                /\ section' = [section EXCEPT ![label] = found.section]
                /\ qlog' = qlog \o asked \o
                       (IF found.anchor
                        THEN <<Query(label, AnchorId(label))>>
                        ELSE <<>>)
                /\ raised' = raised
                /\ pc' = IF found.section # None
                         THEN Phase(label, "enumerate")
                         ELSE After(label)
    /\ UNCHANGED <<mainVars, analysisVars>>
    /\ UNCHANGED <<profile_url, doc, data, items, idx, extracted>>

\* experience_items / education_items
Enumerate(label) ==
    /\ pc = Phase(label, "enumerate")
    /\ LET found == EnumerateItems(section[label]) IN
          /\ items' = [items EXCEPT ![label] = found]
          /\ idx' = 1
          /\ pc' = IF found = <<>> THEN After(label) ELSE Phase(label, "item")
    /\ qlog' = Append(qlog, Query(label, "li.artdeco-list__item"))
    /\ UNCHANGED <<mainVars, analysisVars>>
    /\ UNCHANGED <<profile_url, doc, data, all_sections, section, extracted,
                   raised>>

SelectorsOf(label) ==
    IF label = "Experience"
    THEN [ title |-> title_selectors, company |-> company_selectors,
           date_range |-> experience_date_selectors ]
    ELSE [ school |-> school_selectors, degree |-> degree_selectors,
           date_range |-> education_date_selectors ]

\* one iteration of `for i, item in enumerate(experience_items)`
ProcessItem(label) ==
    /\ pc = Phase(label, "item")
    /\ LET item == items[label][idx]
           sels == SelectorsOf(label)
       IN  IF item.outerHTML = "raise"
           THEN /\ extracted' = [extracted EXCEPT ![label] =
                      Append(@, [skipped |-> TRUE, structural |-> EmptyDict,
                                 mapping |-> EmptyDict])]
                /\ data' = data
           ELSE LET d == EntryData(label, item) IN
                /\ extracted' = [extracted EXCEPT ![label] =
                      Append(@, [skipped |-> FALSE,
                                 structural |->
                                    [f \in DOMAIN sels |-> ScanItem(item, sels[f])],
                                 mapping |-> d])]
                /\ data' = [data EXCEPT ![DataKey(label)] = AppendIfAny(@, d)]
    /\ idx' = idx + 1
    /\ pc' = IF idx = Len(items[label]) THEN After(label) ELSE pc
    /\ UNCHANGED <<mainVars, analysisVars>>
    /\ UNCHANGED <<profile_url, doc, all_sections, section, items, qlog, raised>>

LocateExperience == Locate("Experience")
EnumerateExperience == Enumerate("Experience")
ProcessExperienceItem == ProcessItem("Experience")
LocateEducation == Locate("Education")
EnumerateEducation == Enumerate("Education")
ProcessEducationItem == ProcessItem("Education")

\* the closing log line
Finish ==
    /\ pc = "finish"
    /\ pc' = "return"
    /\ UNCHANGED <<mainVars, analysisVars>>
    /\ UNCHANGED <<profile_url, doc, data, all_sections, section, items, idx,
                   extracted, qlog, raised>>

\* return data
Return ==
    /\ pc = "return"
    /\ pc' = "returned"
    /\ UNCHANGED <<mainVars, analysisVars>>
    /\ UNCHANGED <<profile_url, doc, data, all_sections, section, items, idx,
                   extracted, qlog, raised>>

Next ==
    \/ Navigate
    \/ ExtractName
    \/ ExtractHeadline
    \/ LocateExperience
    \/ EnumerateExperience
    \/ ProcessExperienceItem
    \/ LocateEducation
    \/ EnumerateEducation
    \/ ProcessEducationItem
    \/ Finish
    \/ Return

Spec == Init /\ [][Next]_vars

-----------------------------------------------------------------------------
(* main(): the batch loop around scrape_founder_profile.                   *)

MainInit ==
    /\ mpc = "load"
    /\ env \in
          \* what main's environment answers: pd.read_csv('your_file.csv')
          \* (raise, or a table with its columns), the driver setup, the
          \* login, to_csv
          [ read_csv : {Raise("FileNotFoundError")}
                       \cup {Value("founder_link" :> l) :
                                l \in SeqsUpTo(ProfileUrls, MaxLinks)}
                       \cup {Value("url" :> <<UrlAnn>>)},
            chrome : {"ok", "raise"},
            login : {"ok", "raise"},
            to_csv : {"ok", "raise"} ]
    /\ df = Unset
    /\ iter = 0
    /\ results = <<>>
    /\ driver = "none"
    /\ csv_file = Unset
    /\ Idle("scrape_founder_profile")
    /\ Idle("analyze_founder_profiles")

\* df = pd.read_csv(...), or the fallback table with the one link
\* 'https://www.linkedin.com/in/akkshay/'
LoadCsv ==
    /\ mpc = "load"
    /\ df' = IF env.read_csv.kind = "raise"
             THEN "founder_link" :>
                     << <<"h", "t", "t", "p", "s", ":", "/", "/", "w", "w",
                          "w", ".", "l", "i", "n", "k", "e", "d", "i", "n",
                          ".", "c", "o", "m", "/", "i", "n", "/", "a", "k",
                          "k", "s", "h", "a", "y", "/">> >>
             ELSE env.read_csv.value
    /\ mpc' = "setup"
    /\ UNCHANGED <<env, iter, results, driver, csv_file>>
    /\ UNCHANGED <<scrapeVars, analysisVars>>

\* options, ChromeDriverManager().install(), webdriver.Chrome(...); an
\* exception goes to main's outer handler
SetupDriver ==
    /\ mpc = "setup"
    /\ IF env.chrome = "raise"
       THEN mpc' = "done" /\ driver' = driver
       ELSE mpc' = "login" /\ driver' = "open"
    /\ UNCHANGED <<env, df, iter, results, csv_file>>
    /\ UNCHANGED <<scrapeVars, analysisVars>>

\* linkedin_login(driver, ...); on an exception driver.quit() and return
Login ==
    /\ mpc = "login"
    /\ IF env.login = "raise"
       THEN mpc' = "done" /\ driver' = "quit"
       ELSE mpc' = "loop" /\ driver' = driver
    /\ UNCHANGED <<env, df, iter, results, csv_file>>
    /\ UNCHANGED <<scrapeVars, analysisVars>>

\* `for link in df['founder_link']`: a KeyError goes to the outer handler;
\* the next link is handed to scrape_founder_profile, which meets one of
\* the pages below; after the last link the loop ends
NextLink ==
    /\ mpc = "loop"
    /\ IF "founder_link" \notin DOMAIN df
       THEN mpc' = "done" /\ UNCHANGED <<iter, scrapeVars>>
       ELSE IF iter = Len(df["founder_link"])
       THEN mpc' = "quit" /\ UNCHANGED <<iter, scrapeVars>>
       ELSE /\ mpc' = "call"
            /\ iter' = iter + 1
            /\ profile_url' = df["founder_link"][iter + 1]
            /\ doc' \in
                  { \* the full page
                    Doc(OkNav, FullCss, 0, FullCards, NoAnchors),
                    \* the page does not load
                    Doc([OkNav EXCEPT !.get = "raise"], FullCss, 0,
                        FullCards, NoAnchors),
                    \* the browser is sent to the authwall
                    Doc([OkNav EXCEPT !.current_url = AuthwallPage], FullCss,
                        0, FullCards, NoAnchors),
                    \* the name queries and the card query raise
                    Doc(OkNav,
                        [q \in SelectorSet(name_selectors) |->
                            Raise("WebDriverException")],
                        1, FullCards, NoAnchors),
                    \* an experience entry whose text has a quote, a
                    \* backslash, a comma, a middle dot and a separator, and
                    \* an education entry whose degree has a line break
                    Doc(OkNav, EmptyDict, 0,
                        << Section(1, LabelHeader("Experience"), "ok",
                                   List(<<Item(EmptyDict,
                                               Text(<<"q", "\"", "\\", ",",
                                                      "·", "\n", "a", " ",
                                                      "·", " ", "b">>),
                                               "ok")>>),
                                   List(<<>>), List(<<>>)),
                           Section(2, LabelHeader("Education"), "ok",
                                   List(<<Item("span.t-14.t-normal" :>
                                                  List(<< <<"B", "\n", "S">> >>),
                                               Text(<<>>), "ok")>>),
                                   List(<<>>), List(<<>>)) >>,
                        NoAnchors) }
            /\ data' = InitialData(profile_url')
            /\ pc' = "navigate"
            /\ all_sections' = Unbound
            /\ section' = [l \in Labels |-> Unset]
            /\ items' = [l \in Labels |-> <<>>]
            /\ idx' = 0
            /\ extracted' = [l \in Labels |-> <<>>]
            /\ qlog' = <<>>
            /\ raised' = "none"
    /\ UNCHANGED <<env, df, results, driver, csv_file>>
    /\ UNCHANGED analysisVars

\* the record main's handler appends when the call raised
NullRecord(link) ==
    [ profile_url |-> link, name |-> None, headline |-> None,
      experiences |-> <<>>, education |-> <<>> ]

\* variant: a record without a name is not appended
AppendIfNamed(rs, profile_data) ==
    IF profile_data.name = None THEN rs ELSE Append(rs, profile_data)

\* results.append(profile_data)
AppendRecord(rs, profile_data) == Append(rs, profile_data)

\* the call returned: the record is appended, the loop logs, waits and goes
\* on; the call raised: the handler appends the null record
FinishIteration ==
    /\ mpc = "call"
    /\ pc \in {"returned", "raised"}
    /\ results' = IF pc = "returned" THEN AppendRecord(results, data)
                  ELSE Append(results, NullRecord(profile_url))
    /\ mpc' = "loop"
    /\ UNCHANGED <<env, df, iter, driver, csv_file>>
    /\ UNCHANGED <<scrapeVars, analysisVars>>

\* driver.quit() after the loop
QuitDriver ==
    /\ mpc = "quit"
    /\ driver' = "quit"
    /\ mpc' = "write"
    /\ UNCHANGED <<env, df, iter, results, csv_file>>
    /\ UNCHANGED <<scrapeVars, analysisVars>>

\* a CSV file with its rows, each a field text per column
File(rows) == [kind |-> "file", rows |-> rows]

\* data_for_csv with json.dumps of the two lists, out_df.to_csv(...); an
\* exception goes to the outer handler; without records the table has no
\* columns and the file no header
WriteCsv ==
    /\ mpc = "write"
    /\ csv_file' =
          IF env.to_csv = "raise" THEN csv_file
          ELSE IF results = <<>> THEN [kind |-> "file without columns"]
          ELSE File([i \in 1..Len(results) |->
                  [ profile_url |-> ToCsvField(Str(results[i].profile_url)),
                    name |-> ToCsvField(results[i].name),
                    headline |-> ToCsvField(results[i].headline),
                    experiences |->
                       ToCsvField(Str(JsonDumps(results[i].experiences))),
                    education |->
                       ToCsvField(Str(JsonDumps(results[i].education))) ]])
    /\ mpc' = "done"
    /\ UNCHANGED <<env, df, iter, results, driver>>
    /\ UNCHANGED <<scrapeVars, analysisVars>>

-----------------------------------------------------------------------------
(* analysis.py: parse_experiences, parse_education and                     *)
(* analyze_founder_profiles.                                               *)

\* pd.isna(v) gives []; v.strip() raises AttributeError on a value that is
\* not text; blank text gives []; json.loads inside the try, its
\* JSONDecodeError giving []
parse_experiences(exp_string) ==
    IF exp_string = NaN THEN Value([t |-> "list", v |-> <<>>])
    ELSE IF exp_string.kind # "str" THEN Raise("AttributeError")
    ELSE IF Strip(exp_string.s) = <<>> THEN Value([t |-> "list", v |-> <<>>])
    ELSE LET r == JsonLoads(exp_string.s) IN
         IF r.kind = "raise" THEN Value([t |-> "list", v |-> <<>>]) ELSE r

parse_education(edu_string) ==
    IF edu_string = NaN THEN Value([t |-> "list", v |-> <<>>])
    ELSE IF edu_string.kind # "str" THEN Raise("AttributeError")
    ELSE IF Strip(edu_string.s) = <<>> THEN Value([t |-> "list", v |-> <<>>])
    ELSE LET r == JsonLoads(edu_string.s) IN
         IF r.kind = "raise" THEN Value([t |-> "list", v |-> <<>>]) ELSE r

\* variant: rows without entries are left out of the mean
MeanOfNonEmpty(xs) ==
    LET RECURSIVE SumOf(_)
        SumOf(ys) == IF ys = <<>> THEN 0 ELSE Head(ys) + SumOf(Tail(ys))
    IN  [sum |-> SumOf(xs), n |-> Len(SelectSeq(xs, LAMBDA x : x > 0))]

\* Series.mean(): the sum over the number of rows, kept as the pair
Mean(xs) ==
    LET RECURSIVE SumOf(_)
        SumOf(ys) == IF ys = <<>> THEN 0 ELSE Head(ys) + SumOf(Tail(ys))
    IN  [sum |-> SumOf(xs), n |-> Len(xs)]

\* text.replace('\n', ' ').strip()
Normalise(text) == Strip(Join(Split(text, Newline), <<" ">>))

\* the files analyze_founder_profiles may be given: up to MaxRows rows
\* whose list columns hold nothing, blank text, malformed text, a number,
\* or encoded lists
AnalysisInit ==
    /\ mpc = "idle"
    /\ env = Unset
    /\ df = Unset
    /\ iter = 0
    /\ results = <<>>
    /\ driver = "none"
    /\ Idle("scrape_founder_profile")
    /\ apc = "idle"
    /\ frame = Unset
    /\ summary = Unset
    /\ LET Dumps(entries) == ToCsvField(Str(JsonDumps(entries)))
           TwoEntries ==
               Dumps(<<[school |-> <<"M">>, degree |-> <<"B", "\n", "S">>],
                       [degree |-> <<" ", "\n">>]>>)
           Row(e, u) ==
               [ profile_url |-> <<"x">>, name |-> <<"x">>,
                 headline |-> <<"x">>, experiences |-> e, education |-> u ]
           Rows ==
               { Row(<<>>, <<>>),
                 Row(<<" ">>, TwoEntries),
                 Row(<<"[">>, Dumps(<<[degree |-> <<"B", "\n", "\n", "S">>]>>)),
                 Row(<<"5">>, Dumps(<<[school |-> <<"M", " ">>,
                                       degree |-> <<"B", " ", "S">>]>>)),
                 Row(Dumps(<<>>), <<"5">>),
                 Row(Dumps(<<[title |-> <<"a">>]>>), TwoEntries),
                 Row(Dumps(<<[title |-> <<"a">>]>>), <<>>) }
       IN  \E rows \in SeqsUpTo(Rows, MaxRows) : csv_file = File(rows)

\* df = pd.read_csv(csv_file_path); a file without a header raises
\* EmptyDataError
ReadCsvFile ==
    /\ apc = "idle"
    /\ mpc \in {"idle", "done"}
    /\ csv_file # Unset
    /\ IF csv_file.kind = "file"
       THEN /\ frame' = [rows |-> ReadCsv(csv_file.rows)]
            /\ apc' = "parse"
            /\ summary' = summary
       ELSE /\ frame' = frame
            /\ apc' = "raised"
            /\ summary' = [exc |-> "EmptyDataError"]
    /\ UNCHANGED <<mainVars, scrapeVars>>

\* df['parsed_experiences'], df['parsed_education']; an exception of a
\* parser leaves analyze_founder_profiles, which has no handler
ParseColumns ==
    /\ apc = "parse"
    /\ LET n == Len(frame.rows)
           exps == [i \in 1..n |-> parse_experiences(frame.rows[i].experiences)]
           edus == [i \in 1..n |-> parse_education(frame.rows[i].education)]
       IN  IF \E i \in 1..n : exps[i].kind = "raise" \/ edus[i].kind = "raise"
           THEN /\ apc' = "raised"
                /\ summary' = [exc |-> "AttributeError"]
                /\ frame' = frame
           ELSE /\ frame' = [ rows |-> frame.rows,
                              parsed_experiences |-> [i \in 1..n |-> exps[i].value],
                              parsed_education |-> [i \in 1..n |-> edus[i].value] ]
                /\ apc' = "summarise"
                /\ summary' = summary
    /\ UNCHANGED <<mainVars, scrapeVars>>

\* the entry counts, the total and the means, the frequency tables, the
\* per-founder summaries and the printed summary; an exception leaves
\* analyze_founder_profiles
Summarise ==
    /\ apc = "summarise"
    /\ LET n == Len(frame.rows)
           \* len(v)
           PyLen(v) ==
               IF v.t \in {"list", "str"} THEN Value(Len(v.v))
               ELSE IF v.t = "dict" THEN Value(Cardinality(DOMAIN v.v))
               ELSE Raise("TypeError")
           ne == [i \in 1..n |-> PyLen(frame.parsed_experiences[i])]
           nu == [i \in 1..n |-> PyLen(frame.parsed_education[i])]
           \* the non-empty values edu.get(key, '').replace('\n', ' ')
           \* .strip() over the entries of one row, in order;
           \* AttributeError when an entry is no dict or the value no text
           RECURSIVE ValuesOf(_, _, _, _)
           ValuesOf(edus, key, i, acc) ==
               IF edus.t # "list"
               THEN IF PyLen(edus).value = 0 THEN Value(acc)
                    ELSE Raise("AttributeError")
               ELSE IF i > Len(edus.v) THEN Value(acc)
               ELSE LET edu == edus.v[i] IN
                    IF edu.t # "dict" THEN Raise("AttributeError")
                    ELSE IF key \notin DOMAIN edu.v
                         THEN ValuesOf(edus, key, i + 1, acc)
                    ELSE IF edu.v[key].t # "str" THEN Raise("AttributeError")
                    ELSE LET deg == Normalise(edu.v[key].v) IN
                         ValuesOf(edus, key, i + 1,
                                  IF deg # <<>> THEN Append(acc, deg) ELSE acc)
           degs == [i \in 1..n |->
                       ValuesOf(frame.parsed_education[i],
                                <<"d", "e", "g", "r", "e", "e">>, 1, <<>>)]
           schs == [i \in 1..n |->
                       ValuesOf(frame.parsed_education[i],
                                <<"s", "c", "h", "o", "o", "l">>, 1, <<>>)]
           \* pd.Series(values).value_counts(): each value with its number
           \* of occurrences
           ValueCounts(values) ==
               [v \in {values[i] : i \in 1..Len(values)} |->
                   Cardinality({i \in 1..Len(values) : values[i] = v})]
       IN  IF \E i \in 1..n : ne[i].kind = "raise" \/ nu[i].kind = "raise"
           THEN /\ apc' = "raised"
                /\ summary' = [exc |-> "TypeError"]
                /\ frame' = frame
           ELSE IF \E i \in 1..n :
                      degs[i].kind = "raise" \/ schs[i].kind = "raise"
           THEN /\ apc' = "raised"
                /\ summary' = [exc |-> "AttributeError"]
                /\ frame' = frame
           ELSE /\ frame' =
                      [ rows |-> frame.rows,
                        parsed_experiences |-> frame.parsed_experiences,
                        parsed_education |-> frame.parsed_education,
                        num_experiences |-> [i \in 1..n |-> ne[i].value],
                        num_educations |-> [i \in 1..n |-> nu[i].value] ]
                /\ summary' =
                      [ total_founders |-> n,
                        avg_experiences |-> Mean(frame'.num_experiences),
                        avg_educations |-> Mean(frame'.num_educations),
                        degree_counts |->
                           ValueCounts(Join([i \in 1..n |-> degs[i].value], <<>>)),
                        school_counts |->
                           ValueCounts(Join([i \in 1..n |-> schs[i].value], <<>>)),
                        founder_summaries |->
                           [i \in 1..n |->
                               [ name |-> frame.rows[i].name,
                                 headline |-> frame.rows[i].headline,
                                 num_experiences |-> ne[i].value,
                                 num_educations |-> nu[i].value,
                                 degrees |-> degs[i].value ]] ]
                /\ apc' = "done"
    /\ UNCHANGED <<mainVars, scrapeVars>>

MainNext ==
    \/ LoadCsv
    \/ SetupDriver
    \/ Login
    \/ NextLink
    \/ Navigate
    \/ ExtractName
    \/ ExtractHeadline
    \/ LocateExperience
    \/ EnumerateExperience
    \/ ProcessExperienceItem
    \/ LocateEducation
    \/ EnumerateEducation
    \/ ProcessEducationItem
    \/ Finish
    \/ Return
    \/ FinishIteration
    \/ QuitDriver
    \/ WriteCsv
    \/ ReadCsvFile
    \/ ParseColumns
    \/ Summarise

\* main, then analyze_founder_profiles on the file main wrote
MainSpec == MainInit /\ [][MainNext]_vars

\* a call of scrape_founder_profile is not suspended: the interpreter runs
\* the one thread, every loop of the function runs over a finite list and
\* every sleep ends, so a call that is inside the function moves on to
\* another position
FairMainSpec ==
    MainSpec
    /\ WF_pc(/\ pc \notin {"idle", "returned", "raised"}
             /\ pc' \in {"name", "headline", "Experience_locate",
                         "Experience_enumerate", "Experience_item",
                         "Education_locate", "Education_enumerate",
                         "Education_item", "finish", "return", "returned",
                         "raised"} \ {pc})

\* analyze_founder_profiles on a given file
AnalysisSpec ==
    AnalysisInit /\ [][ReadCsvFile \/ ParseColumns \/ Summarise]_vars

-----------------------------------------------------------------------------
(* Vocabulary of the properties, defined on the document and the record    *)
(* without the operators of the program above.                             *)

MinOf(S) == CHOOSE x \in S : \A y \in S : x <= y

Occurrences(t, p) ==
    {i \in 1..Len(t) : i + Len(p) - 1 <= Len(t) /\ SubSeq(t, i, i + Len(p) - 1) = p}

HasSeparator(t) == Occurrences(t, Separator) # {}

BeforeFirst(t, p) == SubSeq(t, 1, MinOf(Occurrences(t, p)) - 1)

AfterFirst(t, p) == SubSeq(t, MinOf(Occurrences(t, p)) + Len(p), Len(t))

\* the text without its leading and trailing whitespace
Trimmed(t) ==
    LET keep == {i \in 1..Len(t) : t[i] \notin {" ", "\n", "\t"}} IN
    IF keep = {} THEN <<>>
    ELSE SubSeq(t, MinOf(keep), CHOOSE x \in keep : \A y \in keep : y <= x)

\* the k-th line (from 0) of a text, and the number of its lines
Breaks(t) == {i \in 1..Len(t) : t[i] = "\n"}

LineCount(t) == Cardinality(Breaks(t)) + 1

NthLine(t, k) ==
    LET from == IF k = 0 THEN 0
                ELSE CHOOSE i \in Breaks(t) :
                        Cardinality({j \in Breaks(t) : j < i}) = k - 1
        to == IF k = LineCount(t) - 1 THEN Len(t) + 1
              ELSE CHOOSE i \in Breaks(t) :
                      Cardinality({j \in Breaks(t) : j < i}) = k
    IN  SubSeq(t, from + 1, to - 1)

PhaseOrder ==
    << "navigate", "name", "headline", "Experience_locate",
       "Experience_enumerate", "Experience_item", "Education_locate",
       "Education_enumerate", "Education_item", "finish", "return",
       "returned", "raised" >>

Rank(p) == CHOOSE i \in 1..Len(PhaseOrder) : PhaseOrder[i] = p

Asked(phase, q) == \E i \in 1..Len(qlog) : qlog[i] = Query(phase, q)

\* the card lists a heading whose text contains the label
CardHasHeading(card, label) ==
    LET h == FindElements(card, "h2") IN
    /\ h.kind = "list"
    /\ \E j \in 1..Len(h.elems) : Occurrences(h.elems[j], LabelText(label)) # {}

\* the positions of the cards of all_sections with such a heading
MatchingCards(label) ==
    {i \in 1..Len(all_sections.elems) :
        CardHasHeading(all_sections.elems[i], label)}

\* the anchor lookup yields no SECTION
NoAnchorSection(label) ==
    LET a == doc.byId[AnchorId(label)] IN
    \/ a.kind = "raise"
    \/ a.script.kind = "raise"
    \/ a.script.value = None

\* the selectors of the list that match at least one element of the item
Matching(item, selectors) ==
    {i \in 1..Len(selectors) :
        LET r == FindElements(item, selectors[i]) IN
        r.kind = "list" /\ Len(r.elems) > 0}

\* the processed entries of a label: position, entry, what was extracted
Processed(label) ==
    {i \in 1..Len(extracted[label]) : ~extracted[label][i].skipped}

HasNonEmptyField(m) == \E k \in DOMAIN m : Len(m[k]) > 0

-----------------------------------------------------------------------------
(* C1: whatever the document source does (navigation and every query may   *)
(* raise, find nothing, or give elements with empty text), no exception    *)
(* leaves scrape_founder_profile, and the record it returns carries the    *)
(* input URL, a name and a headline that are None or a string, and         *)
(* experiences and education that are lists of string mappings.            *)
C1_NeverRaises ==
    /\ raised = "none"
    /\ pc # "raised"
    /\ data.profile_url = profile_url
    /\ data.name.kind \in {"None", "str"}
    /\ data.headline.kind \in {"None", "str"}
    /\ \A key \in {"experiences", "education"} :
          /\ DOMAIN data[key] = 1..Len(data[key])
          /\ \A i \in 1..Len(data[key]) :
                DOMAIN data[key][i] \subseteq
                   {"title", "company", "employment_type", "date_range",
                    "school", "degree"}

\* a record is returned although a name selector raised a WebDriver error
C1_Witness ==
    /\ pc = "returned"
    /\ FindElement(doc, name_selectors[2]) = Raise("WebDriverException")
    /\ FindElement(doc, name_selectors[1]) = Raise("NoSuchElementException")
    /\ data.name = None
    /\ data.headline # None
    /\ data.experiences # <<>>

-----------------------------------------------------------------------------
(* C2: when some card of all_sections has an h2 heading whose text         *)
(* contains the label, the located section is the first such card, and the *)
(* anchor is looked up only when no card has such a heading.               *)
C2_FirstMatchingCard ==
    \A label \in Labels :
       section[label] # Unset =>
          /\ MatchingCards(label) # {} =>
                section[label] = all_sections.elems[MinOf(MatchingCards(label))]
          /\ Asked(label, AnchorId(label)) => MatchingCards(label) = {}

-----------------------------------------------------------------------------
(* C3: with no card heading containing the label and no SECTION reached    *)
(* from the anchor, the section is absent: nothing is enumerated or        *)
(* extracted for it, no error surfaces, and its list in the record is      *)
(* empty.                                                                  *)
C3_AbsentSection ==
    \A label \in Labels :
       ( /\ \A i \in 1..Len(doc.cards.elems) :
               ~CardHasHeading(doc.cards.elems[i], label)
         /\ NoAnchorSection(label) )
       => /\ section[label] \in {Unset, None}
          /\ ~Asked(label, "li.artdeco-list__item")
          /\ items[label] = <<>>
          /\ extracted[label] = <<>>
          /\ data[DataKey(label)] = <<>>
          /\ raised = "none"

\* the Education section is absent on a page whose Experience card was
\* found and read
C3_Witness ==
    /\ pc = "returned"
    /\ section["Education"] = None
    /\ Asked("Education", "education")
    /\ \E i \in 1..Len(doc.cards.elems) :
          FindElements(doc.cards.elems[i], "h2") = List(<<LowerExperience>>)
    /\ data.education = <<>>

-----------------------------------------------------------------------------
(* Vocabulary of the entry properties.                                     *)

\* what a query answers, nothing when it raises
Answer(node, q) ==
    LET r == FindElements(node, q) IN
    IF r.kind = "list" THEN r.elems ELSE <<>>

\* the results of the three enumeration strategies, in their order
StrategyResults(sec) ==
    << Answer(sec, "li.artdeco-list__item"),
       IF Answer(sec, "ul") = <<>> THEN <<>>
       ELSE Answer(Answer(sec, "ul")[1], "li"),
       Answer(sec, "div.display-flex.flex-column") >>

FirstNonEmpty(answers) ==
    LET full == {k \in 1..Len(answers) : Len(answers[k]) > 0} IN
    IF full = {} THEN <<>> ELSE answers[MinOf(full)]

Enumerated(label) == Asked(label, "li.artdeco-list__item")

\* the phase of the label's entries is over
EntriesDone(label) == Enumerated(label) /\ Rank(pc) >= Rank(After(label))

\* the positional index of a field in the entry's lines
FieldIndex(f) ==
    IF f \in {"title", "school"} THEN 0
    ELSE IF f \in {"company", "degree"} THEN 1
    ELSE 2

\* the value a field takes from a trimmed text: the company stops at the
\* first separator
FieldValue(f, t) ==
    IF f = "company" /\ HasSeparator(t) THEN BeforeFirst(t, Separator) ELSE t

Readable(item) == item.text.kind = "text"

\* the entry has the line the field's index names
HasLine(item, f) == Readable(item) /\ LineCount(item.text.s) > FieldIndex(f)

LineValue(item, f) == FieldValue(f, Trimmed(NthLine(item.text.s, FieldIndex(f))))

\* the selectors that find an element of the document, and those that
\* raise something other than NoSuchElementException
DocumentHits(selectors) ==
    {i \in 1..Len(selectors) : FindElement(doc, selectors[i]).kind = "element"}

DocumentErrors(selectors) ==
    {i \in 1..Len(selectors) :
        /\ FindElement(doc, selectors[i]).kind = "raise"
        /\ FindElement(doc, selectors[i]).exc # "NoSuchElementException"}

AskedCount(phase) == Cardinality({i \in 1..Len(qlog) : qlog[i].phase = phase})

\* a document field: the trimmed text of the first element found by the
\* earliest selector, found before any selector raised an error
DocumentFieldFirstMatch(phase, field, selectors) ==
    LET hits == DocumentHits(selectors)
        errs == DocumentErrors(selectors)
    IN  Asked(phase, selectors[1]) =>
           IF hits # {} /\ \A e \in errs : MinOf(hits) < e
           THEN /\ data[field] =
                      Str(Trimmed(FindElement(doc, selectors[MinOf(hits)]).text))
                /\ AskedCount(phase) = MinOf(hits)
           ELSE data[field] = None

-----------------------------------------------------------------------------
(* C4: the entries of a located section are exactly the result of the      *)
(* first strategy, in the order artdeco list items, items of the first ul, *)
(* flex columns, whose result is not empty; later strategies are neither   *)
(* used nor merged; with all three empty the section gives no entry and no *)
(* error.                                                                  *)
C4_FirstNonEmptyStrategy ==
    \A label \in Labels :
       Enumerated(label) =>
          /\ items[label] = FirstNonEmpty(StrategyResults(section[label]))
          /\ Len(extracted[label]) <= Len(items[label])
          /\ EntriesDone(label) => Len(extracted[label]) = Len(items[label])
          /\ items[label] = <<>> => data[DataKey(label)] = <<>>
          /\ raised = "none"

\* strategy 1 found nothing, strategies 2 and 3 differ, strategy 2 is used
C4_Witness ==
    /\ pc = "returned"
    /\ Enumerated("Experience")
    /\ LET r == StrategyResults(section["Experience"]) IN
          /\ r[1] = <<>>
          /\ r[2] = <<ItemB>>
          /\ r[3] = <<ItemB, ItemA>>
    /\ Len(data.experiences) = 1

-----------------------------------------------------------------------------
-----------------------------------------------------------------------------
(* C6 as stated: whenever a Tier-A selector matches, the field's final     *)
(* value is the Tier-A result, also when the matched text is empty.        *)
C6_TierAAlwaysVerbatim ==
    \A label \in Labels : \A i \in Processed(label) :
       \A f \in DOMAIN SelectorsOf(label) :
          LET got == extracted[label][i].structural[f]
              m == extracted[label][i].mapping
          IN  got.matched => f \in DOMAIN m /\ m[f] = FieldValue(f, got.text)

(* C6 amended: when a Tier-A selector matches an element whose trimmed     *)
(* text is not empty, the field's final value is the Tier-A result and the *)
(* positional line never replaces it; when the trimmed text is empty, the  *)
(* field takes the positional line if the entry has it and stays empty     *)
(* otherwise.                                                              *)
C6_TierAVerbatimUnlessEmpty ==
    \A label \in Labels : \A i \in Processed(label) :
       \A f \in DOMAIN SelectorsOf(label) :
          LET item == items[label][i]
              got == extracted[label][i].structural[f]
              m == extracted[label][i].mapping
          IN  got.matched =>
                 /\ f \in DOMAIN m
                 /\ m[f] = IF got.text # <<>> THEN FieldValue(f, got.text)
                           ELSE IF HasLine(item, f) THEN LineValue(item, f)
                           ELSE <<>>

\* Tier A gave a title although line 0 of the entry reads otherwise
C6_Witness ==
    /\ pc = "returned"
    /\ \E i \in Processed("Experience") :
          LET item == items["Experience"][i]
              got == extracted["Experience"][i].structural["title"]
          IN  /\ got.matched
              /\ got.text = <<"a">>
              /\ HasLine(item, "title")
              /\ LineValue(item, "title") = <<"x">>
              /\ data.experiences[1]["title"] = <<"a">>

-----------------------------------------------------------------------------
(* C7: on an entry no selector matches, title (school) is the trimmed line *)
(* 0, company (degree) comes from the trimmed line 1, date_range is the    *)
(* trimmed line 2, and a field whose line the text does not have is absent *)
(* from the mapping; "VP Engineering\nAcme Corp · Full-time\nJan 2020 -    *)
(* Present" gives title, company, employment type and date range.          *)
C7_PositionalFallback ==
    \A label \in Labels : \A i \in Processed(label) :
       LET item == items[label][i]
           rec == extracted[label][i]
           m == rec.mapping
       IN  ( /\ \A f \in DOMAIN rec.structural : ~rec.structural[f].matched
             /\ Readable(item) )
           => /\ \A f \in DOMAIN rec.structural :
                    IF HasLine(item, f)
                    THEN f \in DOMAIN m /\ m[f] = LineValue(item, f)
                    ELSE f \notin DOMAIN m
              /\ ~HasLine(item, "company") => "employment_type" \notin DOMAIN m
              /\ (label = "Experience" /\ item.text.s = ScenarioAText) =>
                    m = [ title |-> VPEngineering, company |-> AcmeCorp,
                          employment_type |-> FullTime,
                          date_range |-> JanPresent ]

\* Scenario A was read as an experience entry
C7_Witness ==
    /\ pc = "returned"
    /\ \E i \in Processed("Experience") :
          /\ items["Experience"][i].text = Text(ScenarioAText)
          /\ \A f \in {"title", "company", "date_range"} :
                ~extracted["Experience"][i].structural[f].matched
    /\ Len(data.experiences) = 1
    /\ data.experiences[1]["employment_type"] = FullTime

-----------------------------------------------------------------------------
(* The company text of a processed experience entry: the Tier-A text when  *)
(* it is not empty, else line 1, else the empty Tier-A text.               *)

CompanyFromTierA(rec) ==
    rec.structural["company"].matched /\ rec.structural["company"].text # <<>>

HasCompanyText(rec, item) ==
    rec.structural["company"].matched \/ HasLine(item, "company")

CompanyText(rec, item) ==
    IF CompanyFromTierA(rec) THEN rec.structural["company"].text
    ELSE IF HasLine(item, "company") THEN Trimmed(NthLine(item.text.s, 1))
    ELSE rec.structural["company"].text

(* C8: a company text containing " · " once or more gives company = the    *)
(* text before the first separator and employment_type = all the text      *)
(* after that first separator.                                             *)
C8_SplitAtFirstSeparator ==
    \A i \in Processed("Experience") :
       LET item == items["Experience"][i]
           rec == extracted["Experience"][i]
           t == CompanyText(rec, item)
       IN  (HasCompanyText(rec, item) /\ HasSeparator(t)) =>
              /\ rec.mapping["company"] = BeforeFirst(t, Separator)
              /\ rec.mapping["employment_type"] = AfterFirst(t, Separator)

-----------------------------------------------------------------------------
(* C9: a company text without " · " gives company = the whole trimmed text *)
(* and an employment_type that is present and is the empty string, on the  *)
(* Tier-A and on the Tier-B path.                                          *)
C9_NoSeparator ==
    \A i \in Processed("Experience") :
       LET item == items["Experience"][i]
           rec == extracted["Experience"][i]
           t == CompanyText(rec, item)
       IN  (HasCompanyText(rec, item) /\ ~HasSeparator(t)) =>
              /\ "company" \in DOMAIN rec.mapping
              /\ rec.mapping["company"] = t
              /\ "employment_type" \in DOMAIN rec.mapping
              /\ rec.mapping["employment_type"] = <<>>

\* a company without separator came from a selector, and the record holds
\* it with an empty employment type
C9_Witness ==
    /\ pc = "returned"
    /\ \E i \in Processed("Experience") :
          LET rec == extracted["Experience"][i] IN
          /\ CompanyFromTierA(rec)
          /\ rec.structural["company"].text = <<"b">>
    /\ Len(data.experiences) = 1
    /\ data.experiences[1]["company"] = <<"b">>
    /\ data.experiences[1]["employment_type"] = <<>>

-----------------------------------------------------------------------------
(* C10: an enumerated entry's mapping is in the record's list exactly when *)
(* one of its fields is a non-empty string, and the kept mappings stand in *)
(* enumeration order.                                                      *)
C10_KeptIffNonEmptyField ==
    \A label \in Labels :
       /\ data[DataKey(label)] =
             SelectSeq([i \in 1..Len(extracted[label]) |->
                           extracted[label][i].mapping], HasNonEmptyField)
       /\ EntriesDone(label) => Len(extracted[label]) = Len(items[label])

\* of two entries the blank one was dropped and the other kept
C10_Witness ==
    /\ pc = "returned"
    /\ items["Education"] = <<BlankItem, ItemB>>
    /\ Len(extracted["Education"]) = 2
    /\ ~HasNonEmptyField(extracted["Education"][1].mapping)
    /\ Len(data.education) = 1
    /\ data.education[1]["school"] = <<"b">>

-----------------------------------------------------------------------------
(* C11: in the record, name, headline and every value of every experience  *)
(* and education mapping, company and employment_type included, is absent  *)
(* or empty or a string without leading or trailing whitespace.            *)
C11_AllFieldsTrimmed ==
    /\ \A f \in {"name", "headline"} :
          data[f] # None => data[f].s = Trimmed(data[f].s)
    /\ \A key \in {"experiences", "education"} :
          \A i \in 1..Len(data[key]) : \A k \in DOMAIN data[key][i] :
             data[key][i][k] = Trimmed(data[key][i][k])

-----------------------------------------------------------------------------
(* C13: when navigation fails, or the URL after navigation contains        *)
(* "login" or "authwall", the function returns without a crash a record    *)
(* with name = None, headline = None, experiences = [] and education = [], *)
(* and queries nothing of the page.                                        *)
C13_RedirectGivesEmptyRecord ==
    ( /\ pc # "navigate"
      /\ \/ doc.nav.get = "raise"
         \/ doc.nav.save = "raise"
         \/ Occurrences(doc.nav.current_url, LoginMarker) # {}
         \/ Occurrences(doc.nav.current_url, AuthwallMarker) # {} )
    => /\ pc \in {"return", "returned"}
       /\ raised = "none"
       /\ data.name = None
       /\ data.headline = None
       /\ data.experiences = <<>>
       /\ data.education = <<>>
       /\ qlog = <<Query("navigate", "get")>>

\* a record was returned from the authwall page; the page itself has a
\* name, a headline and cards
C13_Witness ==
    /\ pc = "returned"
    /\ doc.nav.current_url = AuthwallPage
    /\ doc.css = FullCss
    /\ doc.cards.elems = FullCards
    /\ data = InitialData(profile_url)

-----------------------------------------------------------------------------
(* C16: strategy 2, used when strategy 1 found nothing, takes the first ul *)
(* of the section and returns only the li elements that are its immediate  *)
(* children: li elements nested deeper in it and those of later uls are    *)
(* not returned.                                                           *)

\* the section's first ul, when the ul query answers and the ul is given
\* by its tree
FirstUlTree(sec) ==
    LET uls == Answer(sec, "ul") IN
    IF uls # <<>> /\ "children" \in DOMAIN uls[1] THEN uls[1].children ELSE <<>>

ImmediateChildren(children) == [i \in 1..Len(children) |-> children[i].item]

C16_ImmediateChildrenOnly ==
    \A label \in Labels :
       ( /\ Enumerated(label)
         /\ Answer(section[label], "li.artdeco-list__item") = <<>>
         /\ FirstUlTree(section[label]) # <<>> )
       => items[label] = ImmediateChildren(FirstUlTree(section[label]))

-----------------------------------------------------------------------------
(* Claims about main's batch loop.                                         *)

\* the login succeeded and the table has the link column
BatchStarted ==
    /\ mpc \in {"loop", "call", "quit", "write", "done"}
    /\ env.chrome = "ok"
    /\ env.login = "ok"
    /\ "founder_link" \in DOMAIN df

\* the subject of the last call could not be parsed: the page did not load
\* or the call raised
LastSubjectFailed == doc.nav.get = "raise" \/ pc = "raised"

\* C12: after a successful login the loop appends exactly one record per
\* link, in input order: while the loop runs there is one record for each
\* finished iteration, each carrying its link; once the loop is over there
\* are as many records as links; the record of a subject that could not be
\* parsed has only null and empty fields; a failed subject does not stop
\* the loop short of the last link
C12_OneRecordPerLink ==
    BatchStarted =>
        LET links == df["founder_link"]
        IN  /\ Len(results) = (IF mpc = "call" THEN iter - 1 ELSE iter)
            /\ \A i \in 1..Len(results) : results[i].profile_url = links[i]
            /\ mpc \in {"quit", "write", "done"} =>
                  Len(results) = Len(links)
            /\ (mpc = "loop" /\ iter >= 1 /\ LastSubjectFailed) =>
                  results[iter] = NullRecord(links[iter])

\* a batch of two links whose first subject failed and whose second was
\* scraped with a name
C12_Witness ==
    /\ BatchStarted
    /\ mpc = "done"
    /\ Len(results) = 2
    /\ results[1] = NullRecord(df["founder_link"][1])
    /\ results[2].name # None

-----------------------------------------------------------------------------
(* Claims about analysis.py.                                               *)

\* the empty decoded list
EmptyList == [t |-> "list", v |-> <<>>]

\* a cell as read is missing, blank, or text that does not decode
NothingToDecode(cell) ==
    \/ cell = NaN
    \/ /\ cell.kind = "str"
       /\ \/ Strip(cell.s) = <<>>
          \/ JsonLoads(cell.s).kind = "raise"

\* C14: for every value read from an experiences or education cell the
\* parsers return without raising, and they return the empty list when the
\* value is missing, blank or does not decode
C14_ParsersNeverRaise ==
    apc # "idle" =>
        \A i \in 1..Len(frame.rows) :
            LET e == frame.rows[i].experiences
                u == frame.rows[i].education
            IN  /\ parse_experiences(e).kind = "value"
                /\ parse_education(u).kind = "value"
                /\ NothingToDecode(e) =>
                      parse_experiences(e) = Value(EmptyList)
                /\ NothingToDecode(u) =>
                      parse_education(u) = Value(EmptyList)

\* the text trimmed, each run of line breaks inside it made one space
Collapsed(text) ==
    Strip(Join(SelectSeq(Split(text, Newline), LAMBDA part : part # <<>>),
               <<" ">>))

\* the positions <<row, entry>> of the decoded education entries that
\* store a value under `key`
StoredAt(key) ==
    { p \in (1..Len(frame.rows)) \X (1..MaxItems + 1) :
        /\ p[2] <= Len(frame.parsed_education[p[1]].v)
        /\ key \in DOMAIN frame.parsed_education[p[1]].v[p[2]].v }

StoredValue(key, p) == frame.parsed_education[p[1]].v[p[2]].v[key].v

\* the frequency table the claim describes for `key`
ExpectedCounts(key) ==
    LET counted == { p \in StoredAt(key) :
                        Collapsed(StoredValue(key, p)) # <<>> }
    IN  [ v \in { Collapsed(StoredValue(key, p)) : p \in counted } |->
            Cardinality({ p \in counted :
                            Collapsed(StoredValue(key, p)) = v }) ]

\* C15: every degree and school counted in the frequency tables is the
\* stored value trimmed with each run of line breaks collapsed to one
\* space; values empty after that are not counted; values that differ only
\* by line breaks are counted under one key
C15_CountsOfCollapsedValues ==
    apc = "done" =>
        /\ summary.degree_counts =
              ExpectedCounts(<<"d", "e", "g", "r", "e", "e">>)
        /\ summary.school_counts =
              ExpectedCounts(<<"s", "c", "h", "o", "o", "l">>)

\* the number of entries a cell decodes to: none when there is nothing to
\* decode
DecodedCount(cell) ==
    IF NothingToDecode(cell) THEN 0 ELSE Len(JsonLoads(cell.s).value.v)

\* the sum of the decoded entry counts of a column over the first n rows
RECURSIVE TotalEntries(_, _)
TotalEntries(column, n) ==
    IF n = 0 THEN 0
    ELSE DecodedCount(frame.rows[n][column]) + TotalEntries(column, n - 1)

\* C17: the total record count is the number of persisted rows, and each
\* mean is the sum of the decoded entry counts over all rows divided by
\* that total: a blank, missing or undecodable cell adds 0 to the sum and
\* its row still counts in the denominator
C17_MeansOverAllRows ==
    apc = "done" =>
        LET n == Len(csv_file.rows)
        IN  /\ summary.total_founders = n
            /\ summary.avg_experiences =
                  [sum |-> TotalEntries("experiences", n), n |-> n]
            /\ summary.avg_educations =
                  [sum |-> TotalEntries("education", n), n |-> n]

\* two rows were summarised, one with nothing to decode in its experiences
\* cell and one with one experience entry
C17_Witness ==
    /\ apc = "done"
    /\ Len(csv_file.rows) = 2
    /\ NothingToDecode(frame.rows[1].experiences)
    /\ DecodedCount(frame.rows[2].experiences) = 1
    /\ summary.avg_experiences = [sum |-> 1, n |-> 2]

-----------------------------------------------------------------------------
(* Claims about the file between main and analysis.py.                     *)

\* the name of a field as text
FieldName(field) ==
    CASE field = "title" -> <<"t", "i", "t", "l", "e">>
      [] field = "company" -> <<"c", "o", "m", "p", "a", "n", "y">>
      [] field = "employment_type" ->
            <<"e", "m", "p", "l", "o", "y", "m", "e", "n", "t", "_", "t",
              "y", "p", "e">>
      [] field = "school" -> <<"s", "c", "h", "o", "o", "l">>
      [] field = "degree" -> <<"d", "e", "g", "r", "e", "e">>
      [] field = "date_range" ->
            <<"d", "a", "t", "e", "_", "r", "a", "n", "g", "e">>

\* a record's list of field mappings as a decoded value: the same entries
\* in the same order, each with the same keys and texts
AsDecoded(entries) ==
    [ t |-> "list",
      v |-> [j \in 1..Len(entries) |->
               [ t |-> "dict",
                 v |-> [k \in {FieldName(f) : f \in DOMAIN entries[j]} |->
                          [ t |-> "str",
                            v |-> entries[j][CHOOSE f \in DOMAIN entries[j] :
                                                FieldName(f) = k] ]] ]] ]

\* analyze_founder_profiles has parsed the columns of the file main wrote
ParsedMainFile ==
    /\ mpc = "done"
    /\ apc \in {"summarise", "done", "raised"}
    /\ "parsed_experiences" \in DOMAIN frame

\* C19: for every record main wrote, parse_experiences and parse_education
\* applied to the encoded texts read back from the file give the record's
\* original lists: same length, same order, same keys and values; an empty
\* list comes back as an empty list
C19_RoundTrip ==
    ParsedMainFile =>
        /\ Len(frame.rows) = Len(results)
        /\ \A i \in 1..Len(results) :
              /\ frame.parsed_experiences[i] = AsDecoded(results[i].experiences)
              /\ frame.parsed_education[i] = AsDecoded(results[i].education)

\* a record with an empty experience list and a record whose texts hold a
\* quote, a backslash, a comma, a separator and a line break, both read
\* back
C19_Witness ==
    /\ ParsedMainFile
    /\ Len(results) = 2
    /\ results[1].experiences = <<>>
    /\ frame.parsed_experiences[1] = [t |-> "list", v |-> <<>>]
    /\ Len(results[2].experiences) = 1
    /\ \E f \in DOMAIN results[2].experiences[1] :
          Contains(results[2].experiences[1][f], <<"\"", "\\", ",", "·">>)
    /\ Len(results[2].education) = 1
    /\ \E f \in DOMAIN results[2].education[1] :
          Contains(results[2].education[1][f], <<"\n">>)

\* C20: once main has created the browser driver, the driver has been quit
\* whenever main has returned
C20_DriverQuitOnReturn ==
    (mpc = "done" /\ driver # "none") => driver = "quit"

-----------------------------------------------------------------------------
(* Claims about the order of processing.                                   *)

\* the positions a call may take directly after position p: the phases in
\* the order name, headline, experience, education, then the return
FollowingPhases(p) ==
    CASE p = "navigate" -> {"name", "return"}
      [] p = "name" -> {"headline"}
      [] p = "headline" -> {"Experience_locate"}
      [] p \in {"Experience_locate", "Experience_enumerate",
                "Experience_item"} ->
            {"Experience_enumerate", "Experience_item", "Education_locate"}
      [] p \in {"Education_locate", "Education_enumerate",
                "Education_item"} ->
            {"Education_enumerate", "Education_item", "finish"}
      [] p = "finish" -> {"return"}
      [] p = "return" -> {"returned"}
      [] OTHER -> {}

\* a step that moves a call: within a subject it goes to a following phase,
\* never back; a call for the next subject starts only when no call is
\* running and the record of the last call has been appended
SequentialStep ==
    pc' # pc =>
        IF pc' = "navigate"
        THEN /\ pc \in {"idle", "returned"}
             /\ mpc = "loop"
             /\ Len(results) = iter
        ELSE /\ pc' \in FollowingPhases(pc)
             /\ Rank(pc') > Rank(pc)
             /\ UNCHANGED profile_url

\* C18: the phases of a subject run in the order name, headline,
\* experience, education; no phase of the next subject starts before the
\* record of the current subject has been returned and appended; and a
\* subject whose extraction has started always runs through all phases to
\* its return, whatever failed in an earlier phase
C18_SequentialToCompletion ==
    /\ [][SequentialStep]_vars
    /\ (pc = "name") ~> (pc = "Education_locate")
    /\ (pc = "name") ~> (pc = "returned")

\* the second subject of a batch has returned after its name queries
\* raised, with its education entries extracted
C18_Witness ==
    /\ mpc = "call"
    /\ iter = 2
    /\ pc = "returned"
    /\ \E q \in DOMAIN doc.css : doc.css[q].kind = "raise"
    /\ data.name = None
    /\ data.education # <<>>

====
